---- MODULE Spec2Model ----
(***************************************************************************)
(* arXade: the embedding ingestion pipeline (src/data/embed.py) and the    *)
(* embedding quantization shared with the retrieval service                *)
(* (src/backend/main.py), as a state machine.                              *)
(*                                                                         *)
(* Floats are modelled as exact rationals n / FloatDen with                *)
(* FloatDen = 10 * 127: the value 1.0 is 1270, 0.3 is 381, and x * 127.0   *)
(* is a rounding tie (k + 0.5) exactly when n ends in 5. np.round returns  *)
(* whole numbers, kept as plain integers. Time is in whole seconds.        *)
(*                                                                         *)
(* An input line is a JSON object or a line json.loads rejects. The        *)
(* progress counter processed_stats['since_last_log'] only drives a print  *)
(* and is left out.                                                        *)
(***************************************************************************)
EXTENDS Integers, Sequences, FiniteSets, TLC

\* ------------------------------------------------------------------ bounds
\* Most documents the vector search returns for one request.
MaxHits == 2
\* The requests in flight at a time.
MaxRequests == 2
\* Longest input file, in lines.
MaxLines == 4
\* Longest input file of the runs checked for termination.
MaxLiveLines == 3
\* Largest start offset tried.
MaxStart == 2
\* Largest item limit tried (None and 0 are tried too).
MaxLimit == 2
\* Largest batch size tried.
MaxBatch == 2
\* Longest float vector given to the quantizers.
MaxDim == 2

\* The unit of the float model: a float x is the integer x * FloatDen.
FloatDen == 10 * 127

\* The float components tried: -5.0, -2.0, -1.0, -0.5, -62.5/127, -0.5/127,
\* 0.0, 0.5/127, 0.3, 62.5/127, 0.5, 1.0, 128/127, 2.0.
FloatVals == {-6350, -2540, -1270, -635, -625, -5, 0, 5, 381, 625, 635, 1270, 1280, 2540}

\* The kinds of input line: a record with embeddable text, a record whose
\* title, authors and abstract are all empty or missing, a line json.loads
\* rejects.
LineKinds == {"ok", "empty", "bad"}

\* How long a blocking embed_content call may take, in seconds.
CallDurations == {0, 30}

\* ------------------------------------------------------- program constants
\* embed.py:85 sets 1500; scaled down so that the quota is reached within
\* MaxLines batch calls.
rate_limit_per_minute == 2
\* the length of the rate window, embed.py:137
WINDOW_SECONDS == 60
\* time.sleep(5) after a failed batch, embed.py:72
BACKOFF_SECONDS == 5
\* SearchQuery.query: max_length=500, main.py:149
QUERY_MAX_LENGTH == 500
\* SearchQuery.limit: le=100, main.py:150
LIMIT_MAX == 100
\* the ceiling of numCandidates, main.py:325
CANDIDATES_CAP == 500

VARIABLES
    \* ---- the arguments and the environment of one ingestion run
    input_exists,        \* whether input_file can be opened
    infile,              \* the lines of input_file, each a kind of LineKinds
    start,               \* start
    limit,               \* limit: <<>> is None, <<n>> is the integer n
    batch_size,          \* batch_size
    \* ---- the run
    pc,                  \* where the run is
    i,                   \* index (from 0) of the next line enumerate() yields
    batch_items,         \* batch_items (batch_texts runs parallel to it)
    outfile,             \* the lines written to outfile so far
    output_file,         \* the lines output_file holds: those that left the
                         \* buffer of outfile
    count,               \* processed_stats['count']
    requests_in_window,  \* processed_stats['requests_in_window']
    window_start_time,   \* processed_stats['window_start_time']
    now,                 \* time.time()
    flush_from,          \* which call site of process_batch is active
    response,            \* embeddings_float_list of the call being handled
    zip_pos,             \* position of the zip loop in process_batch
    calls,               \* log of the calls issued to embed_content
    \* ---- the quantizers applied to one vector
    float_embedding,     \* the vector
    ingest_done, ingest_int8,   \* embed.py create_int8_embedding applied
    query_done, query_int8,     \* main.py create_int8_embedding applied
    \* ---- one search request
    req,                 \* the request, its progress through search_papers,
                         \* the external calls it made and its response
    waiting              \* the other requests in flight, each like req

runVars == <<input_exists, infile, start, limit, batch_size, pc, i, batch_items,
             outfile, output_file, count, requests_in_window,
             window_start_time, now, flush_from, response, zip_pos, calls>>
quantVars == <<float_embedding, ingest_done, ingest_int8, query_done, query_int8>>
searchVars == <<req, waiting>>
vars == <<input_exists, infile, start, limit, batch_size, pc, i, batch_items,
          outfile, output_file, count, requests_in_window,
          window_start_time, now, flush_from, response, zip_pos, calls,
          float_embedding, ingest_done, ingest_int8, query_done, query_int8,
          req, waiting>>

\* ------------------------------------------------------------ quantization
Min(a, b) == IF a < b THEN a ELSE b
Max(a, b) == IF a > b THEN a ELSE b

\* np.clip(x, -1.0, 1.0) on every component
np_clip(v) == [k \in 1..Len(v) |-> Max(-FloatDen, Min(FloatDen, v[k]))]

\* x * 127.0
times127(v) == [k \in 1..Len(v) |-> v[k] * 127]

\* np.round of one float: to the nearest integer, ties to the even one
round_half_even(t) ==
    LET q == t \div FloatDen
        r == t % FloatDen
    IN  IF 2 * r < FloatDen THEN q
        ELSE IF 2 * r > FloatDen THEN q + 1
        ELSE IF q % 2 = 0 THEN q ELSE q + 1

np_round(v) == [k \in 1..Len(v) |-> round_half_even(v[k])]

\* .astype(np.int8): keeps the low 8 bits, two's complement
astype_int8(v) == [k \in 1..Len(v) |-> ((v[k] + 128) % 256) - 128]

\* np.round replaced by rounding with ties away from zero
round_half_away(t) ==
    LET q == t \div FloatDen
        r == t % FloatDen
    IN  IF 2 * r < FloatDen THEN q
        ELSE IF 2 * r > FloatDen THEN q + 1
        ELSE IF t >= 0 THEN q + 1 ELSE q

\* Mutant: the scale factor 128.0 instead of 127.0.
create_int8_embedding_Scale128(float_embedding_) ==
    LET clamped_embedding == np_clip(float_embedding_)
    IN  astype_int8(np_round([k \in 1..Len(clamped_embedding) |->
                                 clamped_embedding[k] * 128]))

\* Mutant: no np.clip before the scaling.
create_int8_embedding_NoClip(float_embedding_) ==
    astype_int8(np_round(times127(float_embedding_)))

\* Mutant: the query path rounds ties away from zero.
main_create_int8_embedding_HalfAway(float_embedding_) ==
    LET scaled == times127(np_clip(float_embedding_))
    IN  astype_int8([k \in 1..Len(scaled) |-> round_half_away(scaled[k])])

\* embed.py create_int8_embedding
create_int8_embedding(float_embedding_) ==
    LET clamped_embedding == np_clip(float_embedding_)
        quantized == astype_int8(np_round(times127(clamped_embedding)))
    IN  quantized

\* main.py create_int8_embedding
main_create_int8_embedding(float_embedding_) ==
    LET clamped_embedding == np_clip(float_embedding_)
        quantized == astype_int8(np_round(times127(clamped_embedding)))
    IN  quantized

\* ------------------------------------------------------- the ingestion run
\* All sequences over S of length 0..n.
SeqsUpTo(S, n) == UNION {[1..m -> S] : m \in 0..n}

\* A line left in output_file by an earlier run.
StaleLine == [idx |-> -1, embedding_int8 |-> <<>>]

\* Python truthiness of processed_stats['limit']: None and 0 are false.
Truthy(l) == l # <<>> /\ l[1] # 0

\* processed_stats['limit'] and processed_stats['count'] >= processed_stats['limit']
LimitReached == Truthy(limit) /\ count >= limit[1]

\* The float vector the embedding model returns for the text of line idx
\* (one component: -0.6, -0.3, 0.0, 0.3, ... over the lines).
EmbedOf(idx) == << (idx - 2) * 381 >>

\* What embed_content may return for a batch: one vector per text in the same
\* order, or a response of another length (one vector short, which is no
\* vectors at all for a batch of one; one too many; none).
RightResponse(items) == [k \in 1..Len(items) |-> EmbedOf(items[k])]
Responses(items) ==
    { RightResponse(items),
      SubSeq(RightResponse(items), 1, Len(items) - 1),
      Append(RightResponse(items), EmbedOf(0)),
      << >> }

\* Mutant: any non-empty response is accepted.
CountsMatch_NonEmptyOnly(embeddings_float_list, batch_texts) ==
    embeddings_float_list # << >>

\* if embeddings_float_list and len(embeddings_float_list) == len(batch_texts)
CountsMatch(embeddings_float_list, batch_texts) ==
    embeddings_float_list # << >> /\ Len(embeddings_float_list) = Len(batch_texts)

InitQuantIdle ==
    /\ float_embedding = << >>
    /\ ingest_done = FALSE /\ ingest_int8 = << >>
    /\ query_done = FALSE /\ query_int8 = << >>

\* A request record: the length of the query and the limit of the SearchQuery,
\* where the request is, the external calls made for it, the quantized query
\* vector, what the vector search returned, why the request failed, and the
\* response (status 0: none yet).
NewRequest(query_len, lim, at) ==
    [query_len |-> query_len, limit |-> lim, pc |-> at, ext |-> << >>,
     query_embedding |-> << >>, hits |-> << >>, cause |-> "none",
     status |-> 0, results |-> << >>]

InitSearchIdle == req = NewRequest(0, 0, "idle") /\ waiting = << >>

\* The state when generate_and_quantize_embeddings has set up processed_stats
\* and the empty batch, before it opens the files.
Init ==
    /\ input_exists \in BOOLEAN
    /\ infile \in IF input_exists THEN SeqsUpTo(LineKinds, MaxLines) ELSE {<< >>}
    /\ start \in 0..MaxStart
    /\ limit \in {<< >>} \cup {<<n>> : n \in 0..MaxLimit}
    /\ batch_size \in 1..MaxBatch
    /\ outfile \in {<< >>, <<StaleLine>>}
    /\ output_file = outfile
    /\ pc = "start"
    /\ i = 0
    /\ batch_items = << >>
    /\ count = 0
    /\ requests_in_window = 0
    /\ now = 0
    /\ window_start_time = now
    /\ flush_from = "none"
    /\ response = << >>
    /\ zip_pos = 0
    /\ calls = << >>
    /\ InitQuantIdle
    /\ InitSearchIdle

\* outfile.write() leaves the line in the buffer of outfile, which is written
\* to output_file when it fills up: after a write the file holds what it held,
\* or any longer part of what was written (whole lines only).
Flushed(on_disk, written) ==
    {SubSeq(written, 1, n) : n \in Len(on_disk)..Len(written)}

\* Leaving the with block (normally, or with SystemExit) closes outfile, which
\* writes its buffer to output_file; until then a step that writes nothing
\* leaves output_file as it is.
CloseOnExit ==
    output_file' = IF pc' \in {"done", "aborted"} THEN outfile' ELSE output_file

\* open(input_file, 'r') raises FileNotFoundError: the run returns, and
\* output_file is never opened.
InputNotFound ==
    /\ pc = "start" /\ ~input_exists
    /\ pc' = "notfound"
    /\ UNCHANGED <<input_exists, infile, start, limit, batch_size, i, batch_items,
                   outfile, count, requests_in_window, window_start_time, now,
                   flush_from, response, zip_pos, calls>>
    /\ CloseOnExit
    /\ UNCHANGED <<quantVars, searchVars>>

\* Mutant: output_file is opened in append mode.
OpenFiles_Append ==
    /\ pc = "start" /\ input_exists
    /\ pc' = "loop"
    /\ UNCHANGED <<input_exists, infile, start, limit, batch_size, i, batch_items,
                   outfile, output_file, count, requests_in_window,
                   window_start_time, now, flush_from, response, zip_pos, calls>>
    /\ UNCHANGED <<quantVars, searchVars>>

\* Both files open; mode 'w' truncates output_file.
OpenFiles ==
    /\ pc = "start" /\ input_exists
    /\ outfile' = << >>
    /\ output_file' = << >>
    /\ pc' = "loop"
    /\ UNCHANGED <<input_exists, infile, start, limit, batch_size, i, batch_items,
                   count, requests_in_window, window_start_time, now,
                   flush_from, response, zip_pos, calls>>
    /\ UNCHANGED <<quantVars, searchVars>>

\* Leaving the for loop (input exhausted, or break at the limit): the remaining
\* items are processed unless the batch is empty or the limit is reached.
AfterLoop ==
    IF batch_items # << >> /\ (~Truthy(limit) \/ count < limit[1])
    THEN pc' = "rate" /\ flush_from' = "final"
    ELSE pc' = "done" /\ flush_from' = flush_from

\* A string is the sequence of its characters; None is a value of its own.
None == <<"None">>
Whitespace == {" "}

\* What json.loads returns for a line that parses: the record with text has
\* all three fields; the record without has an empty title, no authors key
\* and a null abstract.
ItemOf(kind) ==
    IF kind = "ok"
    THEN [title |-> <<"T">>, authors |-> <<"A">>, abstract |-> <<"B">>]
    ELSE [title |-> << >>, abstract |-> None]

\* item.get(key, '') or ''
GetOrEmpty(item, key) ==
    IF key \notin DOMAIN item THEN << >>
    ELSE IF item[key] = None \/ item[key] = << >> THEN << >>
    ELSE item[key]

\* str.strip()
RECURSIVE lstrip(_)
lstrip(str) ==
    IF str # << >> /\ Head(str) \in Whitespace THEN lstrip(Tail(str)) ELSE str
RECURSIVE rstrip(_)
rstrip(str) ==
    IF str # << >> /\ str[Len(str)] \in Whitespace
    THEN rstrip(SubSeq(str, 1, Len(str) - 1)) ELSE str
strip(str) == rstrip(lstrip(str))

\* Mutant: the text is not stripped.
text_to_embed_NoStrip(item) ==
    GetOrEmpty(item, "title") \o <<" ">> \o GetOrEmpty(item, "authors")
        \o <<" ">> \o GetOrEmpty(item, "abstract")

\* text_to_embed = f"{title} {authors} {abstract}".strip()
text_to_embed(item) ==
    LET title == GetOrEmpty(item, "title")
        authors == GetOrEmpty(item, "authors")
        abstract == GetOrEmpty(item, "abstract")
    IN  strip(title \o <<" ">> \o authors \o <<" ">> \o abstract)

\* Mutant: the line at index start is skipped too.
BeforeStart_OffByOne == i <= start

\* if i < start
BeforeStart == i < start

\* for i, line in enumerate(infile): if i < start: continue
SkipBeforeStart ==
    /\ pc = "loop" /\ i < Len(infile)
    /\ BeforeStart
    /\ i' = i + 1
    /\ UNCHANGED <<input_exists, infile, start, limit, batch_size, pc, batch_items,
                   outfile, count, requests_in_window, window_start_time, now,
                   flush_from, response, zip_pos, calls>>
    /\ CloseOnExit
    /\ UNCHANGED <<quantVars, searchVars>>

\* The limit check at the top of the loop body: break.
BreakAtLimit ==
    /\ pc = "loop" /\ i < Len(infile)
    /\ ~BeforeStart
    /\ LimitReached
    /\ AfterLoop
    /\ UNCHANGED <<input_exists, infile, start, limit, batch_size, i, batch_items,
                   outfile, count, requests_in_window, window_start_time, now,
                   response, zip_pos, calls>>
    /\ CloseOnExit
    /\ UNCHANGED <<quantVars, searchVars>>

\* Mutant: the JSONDecodeError reaches the outer handler, which returns.
MalformedLine_Fatal ==
    /\ pc = "loop" /\ i < Len(infile)
    /\ ~BeforeStart /\ ~LimitReached
    /\ infile[i + 1] = "bad"
    /\ pc' = "done"
    /\ UNCHANGED <<input_exists, infile, start, limit, batch_size, i, batch_items,
                   outfile, count, requests_in_window, window_start_time, now,
                   flush_from, response, zip_pos, calls>>
    /\ CloseOnExit
    /\ UNCHANGED <<quantVars, searchVars>>

\* json.loads(line) raises JSONDecodeError: logged, next line.
MalformedLine ==
    /\ pc = "loop" /\ i < Len(infile)
    /\ ~BeforeStart /\ ~LimitReached
    /\ infile[i + 1] = "bad"
    /\ i' = i + 1
    /\ UNCHANGED <<input_exists, infile, start, limit, batch_size, pc, batch_items,
                   outfile, count, requests_in_window, window_start_time, now,
                   flush_from, response, zip_pos, calls>>
    /\ CloseOnExit
    /\ UNCHANGED <<quantVars, searchVars>>

\* if not text_to_embed: continue
EmptyText ==
    /\ pc = "loop" /\ i < Len(infile)
    /\ ~BeforeStart /\ ~LimitReached
    /\ infile[i + 1] # "bad"
    /\ text_to_embed(ItemOf(infile[i + 1])) = << >>
    /\ i' = i + 1
    /\ UNCHANGED <<input_exists, infile, start, limit, batch_size, pc, batch_items,
                   outfile, count, requests_in_window, window_start_time, now,
                   flush_from, response, zip_pos, calls>>
    /\ CloseOnExit
    /\ UNCHANGED <<quantVars, searchVars>>

\* Mutant: the batch is full only when it exceeds batch_size.
AppendRecord_OffByOne ==
    /\ pc = "loop" /\ i < Len(infile)
    /\ ~BeforeStart /\ ~LimitReached
    /\ infile[i + 1] # "bad"
    /\ text_to_embed(ItemOf(infile[i + 1])) # << >>
    /\ batch_items' = Append(batch_items, i)
    /\ i' = i + 1
    /\ IF Len(batch_items') > batch_size
       THEN pc' = "rate" /\ flush_from' = "loop"
       ELSE pc' = pc /\ flush_from' = flush_from
    /\ UNCHANGED <<input_exists, infile, start, limit, batch_size,
                   outfile, count, requests_in_window, window_start_time, now,
                   response, zip_pos, calls>>
    /\ CloseOnExit
    /\ UNCHANGED <<quantVars, searchVars>>

\* The record joins the batch; a full batch goes to the rate limiter.
AppendRecord ==
    /\ pc = "loop" /\ i < Len(infile)
    /\ ~BeforeStart /\ ~LimitReached
    /\ infile[i + 1] # "bad"
    /\ text_to_embed(ItemOf(infile[i + 1])) # << >>
    /\ batch_items' = Append(batch_items, i)
    /\ i' = i + 1
    /\ IF Len(batch_items') >= batch_size
       THEN pc' = "rate" /\ flush_from' = "loop"
       ELSE pc' = pc /\ flush_from' = flush_from
    /\ UNCHANGED <<input_exists, infile, start, limit, batch_size,
                   outfile, count, requests_in_window, window_start_time, now,
                   response, zip_pos, calls>>
    /\ CloseOnExit
    /\ UNCHANGED <<quantVars, searchVars>>

\* The for loop ends with the input.
EndOfInput ==
    /\ pc = "loop" /\ i = Len(infile)
    /\ AfterLoop
    /\ UNCHANGED <<input_exists, infile, start, limit, batch_size, i, batch_items,
                   outfile, count, requests_in_window, window_start_time, now,
                   response, zip_pos, calls>>
    /\ CloseOnExit
    /\ UNCHANGED <<quantVars, searchVars>>

\* The rate limiting before each process_batch call (lines 136-147 and
\* 158-169): a window older than 60 s is restarted; with the quota used up,
\* sleep to the end of the window and restart it.
RateLimit ==
    /\ pc = "rate"
    /\ LET current_time == now
           expired == current_time - window_start_time >= WINDOW_SECONDS
           start1 == IF expired THEN current_time ELSE window_start_time
           requests1 == IF expired THEN 0 ELSE requests_in_window
           wait_time == WINDOW_SECONDS - (current_time - start1)
       IN  IF requests1 >= rate_limit_per_minute
           THEN /\ now' = IF wait_time > 0 THEN now + wait_time ELSE now
                /\ window_start_time' = now'
                /\ requests_in_window' = 0
           ELSE /\ now' = now
                /\ window_start_time' = start1
                /\ requests_in_window' = requests1
    /\ pc' = "call"
    /\ UNCHANGED <<input_exists, infile, start, limit, batch_size, i, batch_items,
                   outfile, count, flush_from, response, zip_pos, calls>>
    /\ CloseOnExit
    /\ UNCHANGED <<quantVars, searchVars>>

\* Mutant: the batch is not emptied after process_batch.
ReturnFromBatch_KeepsBatch ==
    /\ IF flush_from = "loop"
       THEN pc' = "loop" /\ batch_items' = batch_items
       ELSE pc' = "done" /\ batch_items' = batch_items
    /\ flush_from' = "none"
    /\ response' = << >>
    /\ zip_pos' = 0

\* process_batch returns to its call site: in the loop the batch is emptied
\* and the next line is read; after the loop the run completes.
ReturnFromBatch ==
    /\ IF flush_from = "loop"
       THEN pc' = "loop" /\ batch_items' = << >>
       ELSE pc' = "done" /\ batch_items' = batch_items
    /\ flush_from' = "none"
    /\ response' = << >>
    /\ zip_pos' = 0

\* The call is logged: its batch, the time it is issued at, how many lines the
\* output has then, how it ends ("returned", "error", "rejected"), and the
\* vectors it returns with their number.
LogCall(outcome, embeddings_float_list) ==
    calls' = Append(calls, [items |-> batch_items, time |-> now,
                            written |-> Len(outfile),
                            outcome |-> outcome,
                            vectors |-> Len(embeddings_float_list),
                            response |-> embeddings_float_list])

\* embed_content returns as many vectors as texts: the zip loop starts.
EmbedContentReturns ==
    /\ pc = "call" /\ batch_items # << >>
    /\ \E d \in CallDurations, r \in Responses(batch_items) :
          /\ CountsMatch(r, batch_items)
          /\ now' = now + d
          /\ response' = r
          /\ LogCall("returned", r)
    /\ pc' = "zip"
    /\ zip_pos' = 1
    /\ UNCHANGED <<input_exists, infile, start, limit, batch_size, i, batch_items,
                   outfile, count, requests_in_window, window_start_time, flush_from>>
    /\ CloseOnExit
    /\ UNCHANGED <<quantVars, searchVars>>

\* embed_content returns no vectors, or not as many as texts: a warning, and
\* process_batch returns.
EmbedContentMismatch ==
    /\ pc = "call" /\ batch_items # << >>
    /\ \E d \in CallDurations, r \in Responses(batch_items) :
          /\ ~CountsMatch(r, batch_items)
          /\ now' = now + d
          /\ LogCall("returned", r)
    /\ ReturnFromBatch
    /\ UNCHANGED <<input_exists, infile, start, limit, batch_size, i,
                   outfile, count, requests_in_window, window_start_time>>
    /\ CloseOnExit
    /\ UNCHANGED <<quantVars, searchVars>>

\* Mutant: any exception of embed_content ends the process.
EmbedContentRaises_Fatal ==
    /\ pc = "call" /\ batch_items # << >>
    /\ \E d \in CallDurations : now' = now + d
    /\ LogCall("error", << >>)
    /\ pc' = "aborted"
    /\ UNCHANGED <<input_exists, infile, start, limit, batch_size, i, batch_items,
                   outfile, count, requests_in_window, window_start_time,
                   flush_from, response, zip_pos>>
    /\ CloseOnExit
    /\ UNCHANGED <<quantVars, searchVars>>

\* Mutant: after the backoff the same batch goes through the rate limiter to
\* embed_content again.
EmbedContentRaises_Retried ==
    /\ pc = "call" /\ batch_items # << >>
    /\ \E d \in CallDurations : now' = now + d + BACKOFF_SECONDS
    /\ LogCall("error", << >>)
    /\ requests_in_window' = requests_in_window + 1
    /\ pc' = "rate"
    /\ UNCHANGED <<input_exists, infile, start, limit, batch_size, i, batch_items,
                   outfile, count, window_start_time, flush_from, response, zip_pos>>
    /\ CloseOnExit
    /\ UNCHANGED <<quantVars, searchVars>>

\* embed_content raises, and the message is not the invalid-key one: the
\* request is counted, time.sleep(5), and process_batch returns.
EmbedContentRaises ==
    /\ pc = "call" /\ batch_items # << >>
    /\ \E d \in CallDurations : now' = now + d + BACKOFF_SECONDS
    /\ LogCall("error", << >>)
    /\ requests_in_window' = requests_in_window + 1
    /\ ReturnFromBatch
    /\ UNCHANGED <<input_exists, infile, start, limit, batch_size, i,
                   outfile, count, window_start_time>>
    /\ CloseOnExit
    /\ UNCHANGED <<quantVars, searchVars>>

\* Mutant: the invalid-key exception is handled like any other one.
EmbedContentRejectsKey_Continues ==
    /\ pc = "call" /\ batch_items # << >>
    /\ \E d \in CallDurations : now' = now + d + BACKOFF_SECONDS
    /\ LogCall("rejected", << >>)
    /\ requests_in_window' = requests_in_window + 1
    /\ ReturnFromBatch
    /\ UNCHANGED <<input_exists, infile, start, limit, batch_size, i,
                   outfile, count, window_start_time>>
    /\ CloseOnExit
    /\ UNCHANGED <<quantVars, searchVars>>

\* embed_content raises "API key not valid": exit(1). SystemExit is not an
\* Exception, so nothing catches it and the process ends.
EmbedContentRejectsKey ==
    /\ pc = "call" /\ batch_items # << >>
    /\ \E d \in CallDurations : now' = now + d
    /\ LogCall("rejected", << >>)
    /\ pc' = "aborted"
    /\ UNCHANGED <<input_exists, infile, start, limit, batch_size, i, batch_items,
                   outfile, count, requests_in_window, window_start_time,
                   flush_from, response, zip_pos>>
    /\ CloseOnExit
    /\ UNCHANGED <<quantVars, searchVars>>

\* zip(batch_items, embeddings_float_list) stops with the shorter one.
ZipLen == Min(Len(batch_items), Len(response))

\* The limit check inside the zip loop: return, before line 60 counts the
\* request.
ReturnAtLimit ==
    /\ pc = "zip" /\ zip_pos <= ZipLen
    /\ LimitReached
    /\ ReturnFromBatch
    /\ UNCHANGED <<input_exists, infile, start, limit, batch_size, i,
                   outfile, count, requests_in_window, window_start_time, now, calls>>
    /\ CloseOnExit
    /\ UNCHANGED <<quantVars, searchVars>>

\* Mutant: the item is written with the vector at the mirrored position.
WriteRecord_MirroredVector ==
    /\ pc = "zip" /\ zip_pos <= ZipLen
    /\ ~LimitReached
    /\ LET original_item == batch_items[zip_pos]
           embedding_int8 == create_int8_embedding(response[ZipLen - zip_pos + 1])
       IN  outfile' = Append(outfile, [idx |-> original_item,
                                       embedding_int8 |-> embedding_int8])
    /\ count' = count + 1
    /\ IF zip_pos = ZipLen
       THEN /\ requests_in_window' = requests_in_window + 1
            /\ ReturnFromBatch
       ELSE /\ zip_pos' = zip_pos + 1
            /\ UNCHANGED <<requests_in_window, pc, batch_items, flush_from, response>>
    /\ UNCHANGED <<input_exists, infile, start, limit, batch_size, i,
                   window_start_time, now, calls>>
    /\ output_file' \in IF pc' = "done" THEN {outfile'} ELSE Flushed(output_file, outfile')
    /\ UNCHANGED <<quantVars, searchVars>>

\* One turn of the zip loop: the item is written with its quantized vector.
\* After the last turn the request is counted and process_batch returns.
WriteRecord ==
    /\ pc = "zip" /\ zip_pos <= ZipLen
    /\ ~LimitReached
    /\ LET original_item == batch_items[zip_pos]
           embedding_int8 == create_int8_embedding(response[zip_pos])
       IN  outfile' = Append(outfile, [idx |-> original_item,
                                       embedding_int8 |-> embedding_int8])
    /\ count' = count + 1
    /\ IF zip_pos = ZipLen
       THEN /\ requests_in_window' = requests_in_window + 1
            /\ ReturnFromBatch
       ELSE /\ zip_pos' = zip_pos + 1
            /\ UNCHANGED <<requests_in_window, pc, batch_items, flush_from, response>>
    /\ UNCHANGED <<input_exists, infile, start, limit, batch_size, i,
                   window_start_time, now, calls>>
    /\ output_file' \in IF pc' = "done" THEN {outfile'} ELSE Flushed(output_file, outfile')
    /\ UNCHANGED <<quantVars, searchVars>>

Next ==
    \/ InputNotFound
    \/ OpenFiles
    \/ SkipBeforeStart
    \/ BreakAtLimit
    \/ MalformedLine
    \/ EmptyText
    \/ AppendRecord
    \/ EndOfInput
    \/ RateLimit
    \/ EmbedContentReturns
    \/ EmbedContentMismatch
    \/ EmbedContentRaises
    \/ EmbedContentRejectsKey
    \/ ReturnAtLimit
    \/ WriteRecord

Spec == Init /\ [][Next]_vars

\* A run goes on as long as it has a step to take: every call to the backend
\* returns or raises, and every sleep ends. (Input files of up to
\* MaxLiveLines lines.)
InitLive == Init /\ Len(infile) <= MaxLiveLines

SpecLive == InitLive /\ [][Next]_vars /\ WF_vars(Next)

\* ------------------------------------------- a run that may be terminated
\* The process is ended from outside (SIGKILL, SIGTERM, which Python does not
\* handle, or a power cut) while the files are open: nothing more runs, and the
\* buffer of outfile is lost.
Terminate ==
    /\ pc \in {"loop", "rate", "call", "zip"}
    /\ pc' = "killed"
    /\ UNCHANGED <<input_exists, infile, start, limit, batch_size, i, batch_items,
                   outfile, output_file, count, requests_in_window,
                   window_start_time, now, flush_from, response, zip_pos, calls>>
    /\ UNCHANGED <<quantVars, searchVars>>

NextTerminated ==
    \/ Next
    \/ Terminate

SpecTerminated == Init /\ [][NextTerminated]_vars

\* --------------------------------------- the two quantizers on one vector
\* The example vector of the clamping property: [2.0, -5.0, 0.3].
ExampleVector == <<2540, -6350, 381>>

InitRunIdle ==
    /\ input_exists = FALSE
    /\ infile = << >>
    /\ start = 0
    /\ limit = << >>
    /\ batch_size = 1
    /\ outfile = << >>
    /\ output_file = << >>
    /\ pc = "idle"
    /\ i = 0
    /\ batch_items = << >>
    /\ count = 0
    /\ requests_in_window = 0
    /\ now = 0
    /\ window_start_time = 0
    /\ flush_from = "none"
    /\ response = << >>
    /\ zip_pos = 0
    /\ calls = << >>

InitQuant ==
    /\ float_embedding \in SeqsUpTo(FloatVals, MaxDim) \cup {ExampleVector}
    /\ ingest_done = FALSE /\ ingest_int8 = << >>
    /\ query_done = FALSE /\ query_int8 = << >>
    /\ InitRunIdle
    /\ InitSearchIdle

\* process_batch: embedding_int8 = create_int8_embedding(embedding_float)
QuantizeAtIngestion ==
    /\ ~ingest_done
    /\ ingest_int8' = create_int8_embedding(float_embedding)
    /\ ingest_done' = TRUE
    /\ UNCHANGED <<float_embedding, query_done, query_int8>>
    /\ UNCHANGED <<runVars, searchVars>>

\* get_query_embedding: embedding_int8 = create_int8_embedding(embedding_float)
QuantizeAtQuery ==
    /\ ~query_done
    /\ query_int8' = main_create_int8_embedding(float_embedding)
    /\ query_done' = TRUE
    /\ UNCHANGED <<float_embedding, ingest_done, ingest_int8>>
    /\ UNCHANGED <<runVars, searchVars>>

NextQuant ==
    \/ QuantizeAtIngestion
    \/ QuantizeAtQuery

SpecQuant == InitQuant /\ [][NextQuant]_vars

\* ------------------------------------------------- the search request
\* Stored values: a string, an array of values, null, an absent field.
Str(x) == [t |-> "str", s |-> x, a |-> << >>]
Arr(x) == [t |-> "arr", s |-> "", a |-> x]
Null == [t |-> "null", s |-> "", a |-> << >>]
Missing == [t |-> "missing", s |-> "", a |-> << >>]

\* The categories fields stored in the collection: a bare code, collections of
\* codes in several orders, an empty collection, no categories at all.
CategoryValues ==
    << Str("cs.lg"),
       Arr(<<Str("cs.ro"), Str("cs.lg")>>),
       Arr(<<Str("math.ST")>>),
       Arr(<<Str("math.ST"), Str("cs.ne"), Str("cs.cv")>>),
       Arr(<< >>),
       Missing >>

DocIds == <<"2101.00001", "2101.00002", "2101.00003", "2101.00004", "2101.00005",
            "2101.00006">>

\* The documents of the collection.
Collection ==
    { [id |-> Str(DocIds[k]), title |-> Str("title"), abstract |-> Str("abstract"),
       authors |-> Str("authors"), update_date |-> Str("2021-01-01"),
       categories |-> CategoryValues[k]] : k \in 1..Len(CategoryValues) }

\* Similarity scores, in hundredths.
ScoreValues == {95, 80}

\* What $vectorSearch may return: at most lim documents (and at most MaxHits
\* here), no document twice, by descending score.
HitLists(lim) ==
    { h \in SeqsUpTo([doc : Collection, score : ScoreValues], Min(Max(lim, 0), MaxHits)) :
        /\ \A x \in 1..Len(h), y \in 1..Len(h) : x < y =>
              /\ h[x].doc # h[y].doc
              /\ h[x].score >= h[y].score }

\* The float vectors embed_content may return for a query; the last one is an
\* empty embedding.
QueryVectors == { <<381, -2540>>, <<0, 625>>, << >> }

\* The query lengths and limits a request may carry.
QueryLengths == {0, 1, QUERY_MAX_LENGTH, QUERY_MAX_LENGTH + 1}
LimitValues == (-1)..(LIMIT_MAX + 1)

\* Mutant: the upper bound of limit is not checked.
ValidSearchQuery_NoUpperLimit(query_len, lim) ==
    /\ query_len >= 1 /\ query_len <= QUERY_MAX_LENGTH
    /\ lim >= 1

\* SearchQuery: query min_length=1, max_length=500; limit ge=1, le=100
ValidSearchQuery(query_len, lim) ==
    /\ query_len >= 1 /\ query_len <= QUERY_MAX_LENGTH
    /\ lim >= 1 /\ lim <= LIMIT_MAX

\* Mutant: the candidate pool is the limit itself.
numCandidates_NoMultiplier(lim) == Min(CANDIDATES_CAP, lim)

\* 'numCandidates': min(500, search_query.limit * 10)
numCandidates(lim) == Min(CANDIDATES_CAP, lim * 10)

\* priority_categories
priority_categories ==
    <<Str("cs.cv"), Str("cs.lg"), Str("cs.cl"), Str("cs.ai"), Str("cs.ne"), Str("cs.ro")>>

\* $toString: a string is itself, null and an absent field give null.
toString(v) == IF v.t = "str" THEN v ELSE Null

\* Mutant: categories is taken as stored.
categoryArray_NoWrap(categories) == categories

\* categoryArray: $cond if $isArray then $categories else [$toString $categories]
categoryArray(categories) ==
    IF categories.t = "arr" THEN categories ELSE Arr(<<toString(categories)>>)

\* $arrayElemAt [array, 0]: no value for an empty array
arrayElemAt0(arr) == IF Len(arr) > 0 THEN arr[1] ELSE Missing

\* Mutant: the record's categories are filtered by the priority list, so the
\* storage order decides.
primary_category_StorageOrder(category_array) ==
    LET matchedCategories ==
            SelectSeq(category_array.a,
                      LAMBDA c : \E p \in 1..Len(priority_categories) :
                                    priority_categories[p] = c)
    IN  IF Len(matchedCategories) > 0
        THEN arrayElemAt0(matchedCategories)
        ELSE arrayElemAt0(category_array.a)

\* primary_category: $filter of priority_categories by $in categoryArray; the
\* first match, else the first element of categoryArray
primary_category(category_array) ==
    LET matchedCategories ==
            SelectSeq(priority_categories,
                      LAMBDA priority : \E c \in 1..Len(category_array.a) :
                                           category_array.a[c] = priority)
    IN  IF Len(matchedCategories) > 0
        THEN arrayElemAt0(matchedCategories)
        ELSE arrayElemAt0(category_array.a)

\* Mutant: the last part is left out.
concat_NoSuffix(parts) ==
    IF \E k \in 1..(Len(parts) - 1) : parts[k].t # "str" THEN Null
    ELSE Str(parts[1].s \o parts[2].s)

\* $concat of three parts: null when a part is null or absent, else the
\* strings joined.
concat(parts) ==
    IF \E k \in 1..Len(parts) : parts[k].t # "str" THEN Null
    ELSE Str(parts[1].s \o parts[2].s \o parts[3].s)

\* The two $addFields stages and the $project stage on one search hit.
project(hit) ==
    LET category_array == categoryArray(hit.doc.categories)
    IN  [id |-> hit.doc.id,
         title |-> hit.doc.title,
         abstract |-> hit.doc.abstract,
         authors |-> hit.doc.authors,
         date |-> hit.doc.update_date,
         categories |-> category_array,
         primary_category |-> primary_category(category_array),
         arxiv_id |-> hit.doc.id,
         pdf_url |-> concat(<<Str("https://arxiv.org/pdf/"), hit.doc.id, Str(".pdf")>>),
         score |-> hit.score]

\* Mutant: the stages after $vectorSearch return the hits in reverse.
aggregate_stages_Reversed(hits) ==
    [k \in 1..Len(hits) |-> project(hits[Len(hits) + 1 - k])]

\* The stages after $vectorSearch, applied to what it returns.
aggregate_stages(hits) == [k \in 1..Len(hits) |-> project(hits[k])]

\* Mutant: a missing query embedding goes unnoticed.
NoQueryEmbedding_Ignored(query_embedding) == FALSE

\* if not query_embedding (None and [] are false)
NoQueryEmbedding(query_embedding) == query_embedding = << >>

\* except HTTPException: raise / except Exception: HTTPException(500)
OuterHandler(exc) == IF exc.http THEN exc.status ELSE 500

\* An external call of the request, and whether it returned or raised; the
\* vector is the one sent (search) or returned (embed).
ExtCall(op, returned, task_type, candidates, lim, vector) ==
    [op |-> op, returned |-> returned, task_type |-> task_type,
     numCandidates |-> candidates, limit |-> lim, queryVector |-> vector]

\* The request ends with an error response.
Fail(r, cause, exc) ==
    [r EXCEPT !.pc = "responded", !.cause = cause, !.status = OuterHandler(exc)]

InitSearch ==
    /\ req \in {NewRequest(q, l, "received") : q \in QueryLengths, l \in LimitValues}
    /\ waiting = << >>
    /\ InitRunIdle
    /\ InitQuantIdle

\* The SearchQuery body does not validate: 422, search_papers is not entered.
RejectInvalid ==
    /\ req.pc = "received"
    /\ ~ValidSearchQuery(req.query_len, req.limit)
    /\ req' = [req EXCEPT !.pc = "responded", !.cause = "validation", !.status = 422]
    /\ UNCHANGED <<runVars, quantVars, waiting>>

\* mongo_client.admin.command('ping') succeeds.
PingSucceeds ==
    /\ req.pc = "received"
    /\ ValidSearchQuery(req.query_len, req.limit)
    /\ req' = [req EXCEPT !.pc = "embed",
                          !.ext = Append(@, ExtCall("ping", TRUE, "", 0, 0, << >>))]
    /\ UNCHANGED <<runVars, quantVars, waiting>>

\* Mutant: a failed ping is only logged.
PingFails_Ignored ==
    /\ req.pc = "received"
    /\ ValidSearchQuery(req.query_len, req.limit)
    /\ req' = [req EXCEPT !.pc = "embed", !.cause = "datastore",
                          !.ext = Append(@, ExtCall("ping", FALSE, "", 0, 0, << >>))]
    /\ UNCHANGED <<runVars, quantVars, waiting>>

\* The ping raises: HTTPException(503).
PingFails ==
    /\ req.pc = "received"
    /\ ValidSearchQuery(req.query_len, req.limit)
    /\ req' = Fail([req EXCEPT !.ext = Append(@, ExtCall("ping", FALSE, "", 0, 0, << >>))],
                   "datastore", [http |-> TRUE, status |-> 503])
    /\ UNCHANGED <<runVars, quantVars, waiting>>

\* After get_query_embedding: HTTPException(500) without an embedding, else on
\* to the vector search.
AfterEmbedding(r, query_embedding) ==
    IF NoQueryEmbedding(query_embedding)
    THEN Fail(r, "embedding", [http |-> TRUE, status |-> 500])
    ELSE [r EXCEPT !.pc = "search", !.query_embedding = query_embedding]

\* get_query_embedding: embed_content returns, the embedding is quantized.
EmbedReturns ==
    /\ req.pc = "embed"
    /\ \E embedding_float \in QueryVectors :
          req' = AfterEmbedding(
                    [req EXCEPT !.ext = Append(@, ExtCall("embed", TRUE,
                                                          "RETRIEVAL_QUERY", 0, 0,
                                                          embedding_float))],
                    main_create_int8_embedding(embedding_float))
    /\ UNCHANGED <<runVars, quantVars, waiting>>

\* Mutant: get_query_embedding calls embed_content again when it raises.
EmbedRaises_Retried ==
    /\ req.pc = "embed"
    /\ Len(req.ext) < 4
    /\ req' = [req EXCEPT !.ext = Append(@, ExtCall("embed", FALSE,
                                                    "RETRIEVAL_QUERY", 0, 0, << >>))]
    /\ UNCHANGED <<runVars, quantVars, waiting>>

\* get_query_embedding: embed_content raises, None is returned.
EmbedRaises ==
    /\ req.pc = "embed"
    /\ req' = AfterEmbedding(
                 [req EXCEPT !.ext = Append(@, ExtCall("embed", FALSE,
                                                       "RETRIEVAL_QUERY", 0, 0, << >>))],
                 << >>)
    /\ UNCHANGED <<runVars, quantVars, waiting>>

\* collection.aggregate(pipeline) returns: the results are the response.
SearchReturns ==
    /\ req.pc = "search"
    /\ \E hits \in HitLists(req.limit) :
          req' = [req EXCEPT !.pc = "responded", !.status = 200,
                             !.hits = hits,
                             !.results = aggregate_stages(hits),
                             !.ext = Append(@, ExtCall("search", TRUE, "",
                                                       numCandidates(req.limit),
                                                       req.limit, req.query_embedding))]
    /\ UNCHANGED <<runVars, quantVars, waiting>>

\* collection.aggregate raises (the datastore went away, or anything else):
\* the catch-all handler answers 500.
SearchRaises ==
    /\ req.pc = "search"
    /\ \E cause \in {"datastore", "other"} :
          req' = Fail([req EXCEPT !.ext = Append(@, ExtCall("search", FALSE, "",
                                                            numCandidates(req.limit),
                                                            req.limit, req.query_embedding))],
                      cause, [http |-> FALSE, status |-> 0])
    /\ UNCHANGED <<runVars, quantVars, waiting>>

NextSearch ==
    \/ RejectInvalid
    \/ PingSucceeds
    \/ PingFails
    \/ EmbedReturns
    \/ EmbedRaises
    \/ SearchReturns
    \/ SearchRaises

SpecSearch == InitSearch /\ [][NextSearch]_vars

\* ------------------------------------------------ requests side by side
\* MaxRequests requests are in flight: req is the one whose handler runs,
\* waiting holds the others. Each one's handler has locals of its own
\* (query_embedding, pipeline, results); mongo_client, collection and the
\* configured genai module are shared and only read.
ConcurrentRequests ==
    {NewRequest(q, l, "received") : q \in {1, QUERY_MAX_LENGTH}, l \in {0, 1}}

InitConcurrent ==
    /\ req \in ConcurrentRequests
    /\ waiting \in [1..(MaxRequests - 1) -> ConcurrentRequests]
    /\ InitRunIdle
    /\ InitQuantIdle

\* Mutant: query_embedding is a module global, so the handler that resumes
\* finds the value the other one left.
Switch_SharedEmbedding ==
    /\ \E k \in 1..Len(waiting) :
          /\ req' = [waiting[k] EXCEPT !.query_embedding = req.query_embedding]
          /\ waiting' = [waiting EXCEPT ![k] = req]
    /\ UNCHANGED <<runVars, quantVars>>

\* Another request's handler runs on (another worker, or the scheduler):
\* each handler finds its own locals as it left them.
Switch ==
    /\ \E k \in 1..Len(waiting) :
          /\ req' = waiting[k]
          /\ waiting' = [waiting EXCEPT ![k] = req]
    /\ UNCHANGED <<runVars, quantVars>>

NextConcurrent ==
    \/ NextSearch
    \/ Switch

SpecConcurrent == InitConcurrent /\ [][NextConcurrent]_vars

\* ================================================================= claims
Range(s) == {s[k] : k \in 1..Len(s)}

\* The input indices of the lines of output_file, in file order.
OutIdx == [k \in 1..Len(outfile) |-> outfile[k].idx]

\* A logged call that returned one vector per text / another number of them.
RightCount(c) == c.outcome = "returned" /\ c.vectors = Len(c.items)
Mismatched(c) == c.outcome = "returned" /\ c.vectors # Len(c.items)

\* process_batch is through with call m.
Handled(m) == m < Len(calls) \/ pc # "zip"

\* The run ended, and how.
Ended == pc \in {"done", "aborted", "notfound"}

\* ---------------------------------------------------------------- C1
\* C1: in any rolling 60-second window the number of batch calls issued never
\* exceeds the per-minute quota: of any quota + 1 calls, the last is issued at
\* least 60 s after the first.
C1_RollingWindowQuota ==
    \A k \in 1..Len(calls) :
        k + rate_limit_per_minute <= Len(calls) =>
            calls[k + rate_limit_per_minute].time - calls[k].time >= WINDOW_SECONDS

\* ---------------------------------------------------------------- C2
\* C2: a call that returns a number of vectors other than the number of texts
\* (none included) puts no record of its batch in the output, and the run
\* goes on: it is not aborted, and the next batch holds none of its items.
C2_MismatchDropsBatchAndContinues ==
    \A k \in 1..Len(calls) :
        Mismatched(calls[k]) =>
            /\ Range(calls[k].items) \cap Range(OutIdx) = {}
            /\ k = Len(calls) =>
                  /\ pc \in {"loop", "rate", "call", "done"}
                  /\ Len(outfile) = calls[k].written
                  /\ pc # "done" => Range(calls[k].items) \cap Range(batch_items) = {}

\* A mismatched call, a later call whose batch is in the output, at the end.
C2_Witness ==
    /\ pc = "done"
    /\ \E k \in 1..Len(calls), m \in 1..Len(calls) :
          /\ k < m
          /\ Mismatched(calls[k])
          /\ calls[k].vectors = 0
          /\ RightCount(calls[m])
          /\ Range(calls[m].items) \subseteq Range(OutIdx)

\* ---------------------------------------------------------------- C3
\* The indices at or after start of the lines with embeddable text, in order.
EmbeddableFrom(k) ==
    SelectSeq([j \in 1..Len(infile) |-> j - 1],
              LAMBDA j : j >= k /\ infile[j + 1] = "ok")

\* C3: no line before start is ever submitted or written; with no limit and
\* every call returning one vector per text, the completed run's output is
\* exactly the lines at index >= start with embeddable text, in input order,
\* whatever the output held before the run.
C3_ResumeFromStart ==
    /\ \A k \in 1..Len(calls) : \A x \in Range(calls[k].items) : x >= start
    /\ \A x \in Range(batch_items) : x >= start
    /\ pc \notin {"start", "notfound"} => \A x \in Range(OutIdx) : x >= start
    /\ (pc = "done" /\ limit = << >> /\ \A k \in 1..Len(calls) : RightCount(calls[k]))
          => OutIdx = EmbeddableFrom(start)

\* A completed run with start > 0 over stale output that skipped an embeddable
\* line and wrote a later one.
C3_Witness ==
    /\ pc = "done" /\ limit = << >> /\ start > 0
    /\ \A k \in 1..Len(calls) : RightCount(calls[k])
    /\ Len(infile) > start
    /\ infile[1] = "ok"
    /\ OutIdx # << >>
    /\ OutIdx = EmbeddableFrom(start)

\* ---------------------------------------------------------------- C4
\* C4: for every item limit L supplied, the run never has more than L records
\* in the output.
C4_LimitBoundsOutput ==
    (limit # << >> /\ pc \notin {"start", "notfound"}) => Len(outfile) <= limit[1]

\* ---------------------------------------------------------------- C5
\* C5: the ingestion-time and the query-time quantization return the same
\* int8 sequence for the same vector.
C5_QuantizersAgree ==
    (ingest_done /\ query_done) => ingest_int8 = query_int8

\* Both applied to a vector with a rounding tie and an out-of-range component.
C5_Witness ==
    /\ ingest_done /\ query_done
    /\ float_embedding = <<625, 2540>>
    /\ ingest_int8 = <<62, 127>>

\* ---------------------------------------------------------------- C6
InInt8Range(q, v) ==
    /\ Len(q) = Len(v)
    /\ \A k \in 1..Len(q) : q[k] \in -127..127

\* C6: quantization returns as many components as it is given, each an
\* integer in [-127, 127], also for components outside [-1.0, 1.0].
C6_QuantizedRange ==
    /\ ingest_done => InInt8Range(ingest_int8, float_embedding)
    /\ query_done => InInt8Range(query_int8, float_embedding)

\* Both applied to a vector with a component above 1.0 and one below -1.0.
C6_Witness ==
    /\ ingest_done /\ query_done
    /\ Len(float_embedding) = 2
    /\ float_embedding[1] > FloatDen
    /\ float_embedding[2] < -FloatDen

\* ---------------------------------------------------------------- C7
\* Every component limited to [-1.0, 1.0].
Clamp(v) ==
    [k \in 1..Len(v) |-> IF v[k] > FloatDen THEN FloatDen
                         ELSE IF v[k] < -FloatDen THEN -FloatDen ELSE v[k]]

\* C7: quantize(v) = quantize(clamp(v)) for both quantizers.
C7_ClampBeforeScale ==
    /\ ingest_done => ingest_int8 = create_int8_embedding(Clamp(float_embedding))
    /\ query_done => query_int8 = main_create_int8_embedding(Clamp(float_embedding))

\* quantize([2.0, -5.0, 0.3]) is quantize([1.0, -1.0, 0.3]) = [127, -127, 38].
C7_Witness ==
    /\ ingest_done /\ query_done
    /\ float_embedding = ExampleVector
    /\ Clamp(float_embedding) = <<FloatDen, -FloatDen, 381>>
    /\ ingest_int8 = <<127, -127, 38>>
    /\ query_int8 = <<127, -127, 38>>

\* ---------------------------------------------------------------- C8
\* C8: a call rejected for its key is the last call of the run; the run is
\* aborted with the output as it was when the call was issued.
C8_RejectedKeyAborts ==
    \A k \in 1..Len(calls) :
        calls[k].outcome = "rejected" =>
            /\ k = Len(calls)
            /\ pc = "aborted"
            /\ Len(outfile) = calls[k].written

\* Aborted with records written and input left unread.
C8_Witness ==
    /\ pc = "aborted"
    /\ Len(calls) >= 2
    /\ calls[Len(calls)].outcome = "rejected"
    /\ outfile # << >>
    /\ i < Len(infile)

\* ---------------------------------------------------------------- C9
\* C9: a call that raises another error does not end the run: the run is
\* aborted only by a rejected key and completes only with the input read or
\* the limit reached; without a limit every embeddable line at index >= start
\* is submitted by the end; the next call comes no sooner than the backoff
\* after it; and without a limit the batch of every later call that returns
\* one vector per text is written.
C9_ErrorIsNotFatal ==
    \A k \in 1..Len(calls) :
        calls[k].outcome = "error" =>
            /\ pc = "aborted" => calls[Len(calls)].outcome = "rejected"
            /\ pc = "done" => (i = Len(infile) \/ LimitReached)
            /\ (pc = "done" /\ limit = << >>) =>
                  \A j \in Range(EmbeddableFrom(start)) :
                      \E m \in 1..Len(calls) : j \in Range(calls[m].items)
            /\ k = Len(calls) => now >= calls[k].time + BACKOFF_SECONDS
            /\ \A m \in (k + 1)..Len(calls) :
                  /\ calls[m].time >= calls[k].time + BACKOFF_SECONDS
                  /\ (RightCount(calls[m]) /\ Handled(m) /\ limit = << >>)
                        => Range(calls[m].items) \subseteq Range(OutIdx)

\* A failed call, then a later call whose batch is written, at the end.
C9_Witness ==
    /\ pc = "done"
    /\ \E k \in 1..Len(calls), m \in 1..Len(calls) :
          /\ k < m
          /\ calls[k].outcome = "error"
          /\ RightCount(calls[m])
          /\ Range(calls[m].items) \subseteq Range(OutIdx)

\* ---------------------------------------------------------------- C10
\* The lines at or after start that json.loads rejects.
MalformedLines == {b \in start..(Len(infile) - 1) : infile[b + 1] = "bad"}

\* C10: a malformed line does not end the run: it completes only with the
\* input read or the limit reached and is aborted only by a rejected key;
\* every embeddable line read so far is in the current batch or was
\* submitted; and with no limit and every call returning one vector per
\* text, every embeddable line at index >= start is written.
C10_MalformedLineSkipped ==
    MalformedLines # {} =>
        /\ pc = "done" => (i = Len(infile) \/ LimitReached)
        /\ pc = "aborted" => calls[Len(calls)].outcome = "rejected"
        /\ \A j \in start..(i - 1) :
              infile[j + 1] = "ok" =>
                  \/ j \in Range(batch_items)
                  \/ \E k \in 1..Len(calls) : j \in Range(calls[k].items)
        /\ (pc = "done" /\ limit = << >> /\ \A k \in 1..Len(calls) : RightCount(calls[k]))
              => Range(EmbeddableFrom(start)) \subseteq Range(OutIdx)

\* A completed run: a record, a malformed line in the middle of the batch,
\* a record; both records written.
C10_Witness ==
    /\ pc = "done" /\ start = 0 /\ batch_size = 2
    /\ Len(infile) >= 3
    /\ infile[1] = "ok" /\ infile[2] = "bad" /\ infile[3] = "ok"
    /\ {0, 2} \subseteq Range(OutIdx)
    /\ Len(calls) >= 1 /\ calls[1].items = <<0, 2>>

\* ---------------------------------------------------------------- C11
\* The lines that parse to a record whose title, authors and abstract, a
\* missing or empty field taken as the empty string, concatenate to nothing.
FieldOrEmpty(item, key) ==
    IF key \in DOMAIN item /\ item[key] # None THEN item[key] ELSE << >>
EmptyTextLines ==
    {j \in 0..(Len(infile) - 1) :
        /\ infile[j + 1] # "bad"
        /\ FieldOrEmpty(ItemOf(infile[j + 1]), "title")
              \o FieldOrEmpty(ItemOf(infile[j + 1]), "authors")
              \o FieldOrEmpty(ItemOf(infile[j + 1]), "abstract") = << >>}

\* C11: a record with empty concatenated text is in no batch, in no call to
\* the embedding backend and not in the output.
C11_EmptyTextSkipped ==
    \A j \in EmptyTextLines :
        /\ j \notin Range(batch_items)
        /\ \A k \in 1..Len(calls) : j \notin Range(calls[k].items)
        /\ pc \notin {"start", "notfound"} => j \notin Range(OutIdx)

\* A completed run that read a record without text between two records with
\* text and wrote those two.
C11_Witness ==
    /\ pc = "done" /\ start = 0
    /\ Len(infile) >= 3
    /\ 1 \in EmptyTextLines
    /\ OutIdx = <<0, 2>>

\* ---------------------------------------------------------------- C12
\* The external calls of the request with the given name.
ExtOps == {req.ext[k].op : k \in 1..Len(req.ext)}
PingFailed == \E k \in 1..Len(req.ext) : req.ext[k].op = "ping" /\ ~req.ext[k].returned

\* C12: when the datastore probe fails the request ends with 503, and neither
\* the embedding call nor the vector search is made for it.
C12_ProbeFailureIs503 ==
    PingFailed =>
        /\ req.pc = "responded"
        /\ req.status = 503
        /\ "embed" \notin ExtOps /\ "search" \notin ExtOps

C12_Witness ==
    /\ PingFailed
    /\ req.status = 503
    /\ req.ext = <<ExtCall("ping", FALSE, "", 0, 0, << >>)>>

\* ---------------------------------------------------------------- C13
\* The embedding call raised, or returned no embedding.
EmbedFailed ==
    \E k \in 1..Len(req.ext) :
        /\ req.ext[k].op = "embed"
        /\ ~req.ext[k].returned \/ req.query_embedding = << >>

\* C13: when the query embedding fails the request ends with 500: no vector
\* search, no result list.
C13_EmbeddingFailureIs500 ==
    EmbedFailed =>
        /\ req.pc = "responded"
        /\ req.status = 500
        /\ "search" \notin ExtOps
        /\ req.results = << >>

C13_Witness ==
    /\ EmbedFailed
    /\ req.status = 500
    /\ Len(req.ext) = 2
    /\ req.ext[1].op = "ping" /\ req.ext[1].returned
    /\ ~req.ext[2].returned

\* ---------------------------------------------------------------- C14
\* C14: a failed request tells its cause: 503 when the datastore is
\* unavailable, 500 when the processing of the query fails.
C14_ErrorsTellTheCause ==
    req.pc = "responded" =>
        /\ req.cause = "datastore" => req.status = 503
        /\ req.cause \in {"embedding", "other"} => req.status = 500

\* ---------------------------------------------------------------- C15
\* The query is empty or too long, or the limit is outside 1..100.
InvalidRequest ==
    \/ req.query_len = 0
    \/ req.query_len > 500
    \/ req.limit < 1
    \/ req.limit > 100

\* C15: an invalid request is rejected without any external call.
C15_InvalidRejectedFirst ==
    (req.pc # "idle" /\ InvalidRequest) =>
        /\ req.ext = << >>
        /\ req.pc \in {"received", "responded"}
        /\ req.pc = "responded" => req.status = 422

C15_Witness ==
    /\ req.pc = "responded" /\ req.status = 422
    /\ req.query_len = 1 /\ req.limit = 101
    /\ req.ext = << >>

\* ---------------------------------------------------------------- C16
\* The priority list of the claim.
PriorityList ==
    <<Str("cs.cv"), Str("cs.lg"), Str("cs.cl"), Str("cs.ai"), Str("cs.ne"), Str("cs.ro")>>

\* The positions in the priority list of the codes found in a collection.
PriorityMatches(cats) == {p \in 1..Len(PriorityList) : PriorityList[p] \in Range(cats)}

\* C16: primary_category of every returned paper is the earliest entry of the
\* priority list found in its normalized categories, and without one the
\* first element of the normalized categories (when there is one).
C16_PrimaryCategoryByPriority ==
    req.status = 200 =>
        \A k \in 1..Len(req.results) :
            LET cats == req.results[k].categories.a
                m == PriorityMatches(cats)
            IN  IF m # {}
                THEN req.results[k].primary_category
                        = PriorityList[CHOOSE p \in m : \A q \in m : p <= q]
                ELSE cats # << >> => req.results[k].primary_category = cats[1]

\* A response with ["cs.ro", "cs.lg"] -> cs.lg and ["math.ST"] -> math.ST.
C16_Witness ==
    /\ req.status = 200
    /\ Len(req.results) = 2
    /\ req.results[1].categories = Arr(<<Str("cs.ro"), Str("cs.lg")>>)
    /\ req.results[1].primary_category = Str("cs.lg")
    /\ req.results[2].categories = Arr(<<Str("math.ST")>>)
    /\ req.results[2].primary_category = Str("math.ST")

\* ---------------------------------------------------------------- C17
\* The stored categories of the document a result comes from.
StoredCategories(result) == (CHOOSE d \in Collection : d.id = result.id).categories

\* C17: a bare code is wrapped as a one-element collection, a collection is
\* returned as stored, and normalizing the normalized value changes nothing.
C17_NormalizationIdempotent ==
    req.status = 200 =>
        \A k \in 1..Len(req.results) :
            LET stored == StoredCategories(req.results[k])
            IN  /\ stored.t = "str" => req.results[k].categories = Arr(<<stored>>)
                /\ stored.t = "arr" => req.results[k].categories = stored
                /\ categoryArray(req.results[k].categories) = req.results[k].categories

\* A response with a bare "cs.lg" and a stored collection.
C17_Witness ==
    /\ req.status = 200
    /\ Len(req.results) = 2
    /\ StoredCategories(req.results[1]) = Str("cs.lg")
    /\ req.results[1].categories = Arr(<<Str("cs.lg")>>)
    /\ StoredCategories(req.results[2]).t = "arr"

\* ---------------------------------------------------------------- C18
\* C18: the vector search is issued with numCandidates = min(500, 10 * limit)
\* and limit = limit, and numCandidates > limit.
C18_CandidatePool ==
    \A k \in 1..Len(req.ext) :
        req.ext[k].op = "search" =>
            /\ req.limit \in 1..100
            /\ req.ext[k].limit = req.limit
            /\ req.ext[k].numCandidates
                  = (IF 10 * req.limit < 500 THEN 10 * req.limit ELSE 500)
            /\ req.ext[k].numCandidates > req.ext[k].limit

\* The largest limit: a pool of 500 for 100 results.
C18_Witness ==
    /\ req.limit = 100
    /\ "search" \in ExtOps
    /\ req.ext[Len(req.ext)].numCandidates = 500

\* ---------------------------------------------------------------- C19
\* C19: a successful response has at most limit entries, one per document
\* the index returned and in its order, with the index's score, which
\* descends.
C19_ResultsAsReturnedByIndex ==
    req.status = 200 =>
        /\ Len(req.results) <= req.limit
        /\ Len(req.results) = Len(req.hits)
        /\ \A k \in 1..Len(req.results) :
              /\ req.results[k].id = req.hits[k].doc.id
              /\ req.results[k].score = req.hits[k].score
        /\ \A k \in 1..(Len(req.results) - 1) :
              req.results[k].score >= req.results[k + 1].score

\* Two results with different scores whose primary categories would sort the
\* other way round by priority.
C19_Witness ==
    /\ req.status = 200
    /\ Len(req.results) = 2
    /\ req.results[1].score > req.results[2].score
    /\ req.results[1].primary_category = Str("math.ST")
    /\ req.results[2].primary_category = Str("cs.cv")
\* ---------------------------------------------------------------- C20
\* The lines written by the batches that completed: all of them, or while a
\* batch is in its zip loop those written before it.
CompletedLines ==
    IF zip_pos = 0 THEN Len(outfile) ELSE calls[Len(calls)].written

\* C20: when the process is terminated, every record of every batch that
\* completed before is in the output file.
C20_CompletedBatchesSurvive ==
    pc = "killed" =>
        /\ Len(output_file) >= CompletedLines
        /\ SubSeq(output_file, 1, CompletedLines) = SubSeq(outfile, 1, CompletedLines)
\* ---------------------------------------------------------------- C21
\* C21: a batch whose call raised a transient error is submitted again: a later
\* call of the run carries the same texts.
C21_FailedBatchRetried ==
    pc = "done" =>
        \A k \in 1..Len(calls) :
            calls[k].outcome = "error" =>
                \E m \in (k + 1)..Len(calls) : calls[m].items = calls[k].items

\* ---------------------------------------------------------------- C22
\* The lines of the output that call k wrote: those after the calls[k].written
\* lines the output had when the call was issued, up to the next call.
WrittenBy(k) ==
    LET upto == IF k < Len(calls) THEN calls[k + 1].written ELSE Len(outfile)
    IN  SubSeq(outfile, calls[k].written + 1, upto)

\* C22 as stated: every line of the output is the record at some position of a
\* batch with the quantization of the vector at that position of the response,
\* and every record of a batch that got one vector per text has exactly one
\* line in the output.
C22_OneRecordPerEmbedded ==
    pc = "done" =>
        /\ \A n \in 1..Len(outfile) :
              \E k \in 1..Len(calls) : \E p \in 1..Len(calls[k].items) :
                  /\ p <= Len(calls[k].response)
                  /\ outfile[n].idx = calls[k].items[p]
                  /\ outfile[n].embedding_int8
                        = create_int8_embedding(calls[k].response[p])
        /\ \A k \in 1..Len(calls) :
              RightCount(calls[k]) =>
                  \A x \in Range(calls[k].items) :
                      Cardinality({n \in 1..Len(outfile) : outfile[n].idx = x}) = 1

\* C22 amended: call k writes, in order, the records at positions 1..w of its
\* batch, each with the quantization of the vector at its position; w is the
\* size of the batch unless the limit is reached first, and no record has two
\* lines.
C22_RecordsOfBatchUntilLimit ==
    pc \notin {"start", "notfound"} =>
        /\ \A k \in 1..Len(calls) :
              LET w == Len(WrittenBy(k))
              IN  /\ w <= Len(calls[k].items)
                  /\ w > 0 => RightCount(calls[k])
                  /\ \A p \in 1..w :
                        /\ WrittenBy(k)[p].idx = calls[k].items[p]
                        /\ WrittenBy(k)[p].embedding_int8
                              = create_int8_embedding(calls[k].response[p])
                  /\ (RightCount(calls[k]) /\ Handled(k)) =>
                        \/ w = Len(calls[k].items)
                        \/ Truthy(limit) /\ calls[k].written + w >= limit[1]
        /\ Len(calls) = 0 => outfile = << >>
        /\ Len(calls) > 0 => calls[1].written = 0
        /\ \A n, m \in 1..Len(outfile) : outfile[n].idx = outfile[m].idx => n = m

\* The limit met inside a batch: two records embedded, one written.
C22_Witness ==
    /\ pc = "done"
    /\ limit = <<1>>
    /\ Len(calls) = 1 /\ RightCount(calls[1])
    /\ Len(calls[1].items) = 2
    /\ Len(outfile) = 1
    /\ outfile[1].embedding_int8 = create_int8_embedding(calls[1].response[1])

\* ---------------------------------------------------------------- C23
\* C23: every result has arxiv_id = id and pdf_url = "https://arxiv.org/pdf/"
\* followed by the id followed by ".pdf".
C23_UrlFromId ==
    req.status = 200 =>
        \A k \in 1..Len(req.results) :
            /\ req.results[k].arxiv_id = req.hits[k].doc.id
            /\ req.results[k].id = req.hits[k].doc.id
            /\ req.results[k].pdf_url.t = "str"
            /\ req.results[k].pdf_url.s
                  = "https://arxiv.org/pdf/" \o req.hits[k].doc.id.s \o ".pdf"

C23_Witness ==
    /\ req.status = 200
    /\ Len(req.results) = 2
    /\ req.results[1].arxiv_id = Str("2101.00002")
    /\ req.results[1].pdf_url = Str("https://arxiv.org/pdf/2101.00002.pdf")
    /\ req.results[2].arxiv_id = Str("2101.00001")
    /\ req.results[2].pdf_url = Str("https://arxiv.org/pdf/2101.00001.pdf")

\* ---------------------------------------------------------------- C24
\* All the requests in flight.
InFlight == {req} \cup Range(waiting)

\* The external calls of request r with the given name.
CallsOf(r, op) == SelectSeq(r.ext, LAMBDA c : c.op = op)

\* The outcome a valid request has when it runs alone and its collaborators
\* answer as its own calls were answered: the status, and for 200 the vector
\* searched for and the list returned.
AloneStatus(r) ==
    LET ping == CallsOf(r, "ping")
        embed == CallsOf(r, "embed")
        search == CallsOf(r, "search")
    IN  IF ~ping[1].returned THEN 503
        ELSE IF ~embed[1].returned \/ embed[1].queryVector = << >> THEN 500
        ELSE IF ~search[1].returned THEN 500
        ELSE 200

\* C24: whatever the interleaving, a request that has its response has the
\* outcome it has when it runs alone: the status its own calls lead to, its
\* own query vector searched for with its own limit, and the results of its
\* own hits.
C24_RequestsDoNotInterfere ==
    \A r \in InFlight :
        (r.pc = "responded" /\ r.status # 422) =>
            /\ r.status = AloneStatus(r)
            /\ \A k \in 1..Len(r.ext) :
                  r.ext[k].op = "search" =>
                      /\ r.ext[k].queryVector
                            = main_create_int8_embedding(CallsOf(r, "embed")[1].queryVector)
                      /\ r.ext[k].limit = r.limit
            /\ r.status = 200 => r.results = aggregate_stages(r.hits)
            /\ r.status # 200 => r.results = << >>

\* Two requests in flight together, both answered 200, which searched
\* different vectors and got different results.
C24_Witness ==
    /\ Len(waiting) = 1
    /\ req.status = 200 /\ waiting[1].status = 200
    /\ req.query_embedding # waiting[1].query_embedding
    /\ req.results # << >> /\ waiting[1].results # << >>
    /\ req.results # waiting[1].results

\* ---------------------------------------------------------------- C25
\* The items of a sequence of line indices are in input order.
InInputOrder(items) ==
    \A x, y \in 1..Len(items) : x < y => items[x] < items[y]

\* C25: every call carries 1..batch_size texts in input order; a batch that
\* reaches batch_size is submitted at once, a smaller one only when the input
\* is exhausted, so every call but the last carries batch_size texts; and a
\* non-empty remainder at the end of the input is submitted.
C25_BatchSizes ==
    /\ \A k \in 1..Len(calls) :
          /\ Len(calls[k].items) >= 1
          /\ Len(calls[k].items) <= batch_size
          /\ InInputOrder(calls[k].items)
          /\ Len(calls[k].items) < batch_size => (k = Len(calls) /\ i = Len(infile))
    /\ pc = "loop" => Len(batch_items) < batch_size
    /\ (pc = "done" /\ batch_items # << >>) =>
          /\ i = Len(infile)
          /\ Len(calls) > 0
          /\ calls[Len(calls)].items = batch_items

\* Three records in batches of two: a call with two texts, then the remainder.
C25_Witness ==
    /\ pc = "done" /\ batch_size = 2
    /\ Len(calls) = 2
    /\ calls[1].items = <<0, 1>>
    /\ calls[2].items = <<2>>

\* ---------------------------------------------------------------- C26
\* The positions in the output of the records of call k.
PositionsOf(k) == {n \in 1..Len(outfile) : outfile[n].idx \in Range(calls[k].items)}

\* C26: batches are handled one after the other: every line batch k writes is
\* in the output when the call of batch k+1 is issued, and not before its own
\* call; so the output is the input order with lines left out, none twice.
C26_BatchesInSequence ==
    pc \notin {"start", "notfound"} =>
        /\ \A k \in 1..Len(calls) :
              \A n \in PositionsOf(k) :
                  /\ n > calls[k].written
                  /\ k < Len(calls) => n <= calls[k + 1].written
        /\ InInputOrder(OutIdx)

\* Two batches of two records, all four written.
C26_Witness ==
    /\ pc = "done" /\ batch_size = 2
    /\ Len(calls) = 2
    /\ calls[2].written = 2
    /\ OutIdx = <<0, 1, 2, 3>>

\* ---------------------------------------------------------------- C27
\* The names of the external calls of request r, in the order it made them.
OpsOf(r) == [k \in 1..Len(r.ext) |-> r.ext[k].op]

\* C27: the external calls of a request are the probe, then the embedding
\* with the query task hint, then the vector search, each at most once; a
\* call is made only after every earlier one succeeded; and the request
\* searches with the embedding of its own call.
C27_ProbeEmbedSearchOnce ==
    \A r \in InFlight :
        /\ \E n \in 0..3 : OpsOf(r) = SubSeq(<<"ping", "embed", "search">>, 1, n)
        /\ \A k \in 1..Len(r.ext) :
              /\ k < Len(r.ext) => r.ext[k].returned
              /\ (k < Len(r.ext) /\ r.ext[k].op = "embed") => r.ext[k].queryVector # << >>
              /\ r.ext[k].op = "embed" => r.ext[k].task_type = "RETRIEVAL_QUERY"
              /\ r.ext[k].op = "search" =>
                    r.ext[k].queryVector = main_create_int8_embedding(r.ext[k - 1].queryVector)
        /\ r.pc = "embed" => OpsOf(r) = <<"ping">>
        /\ r.pc = "search" => OpsOf(r) = <<"ping", "embed">>
        /\ r.status = 200 => OpsOf(r) = <<"ping", "embed", "search">>

\* A request that made its three calls next to one whose embedding call
\* raised and was not repeated.
C27_Witness ==
    /\ Len(waiting) = 1
    /\ req.status = 200
    /\ OpsOf(req) = <<"ping", "embed", "search">>
    /\ waiting[1].status = 500
    /\ OpsOf(waiting[1]) = <<"ping", "embed">>
    /\ ~waiting[1].ext[2].returned

\* ---------------------------------------------------------------- C28
\* The calls issued since the window started.
CallsInWindow == {k \in 1..Len(calls) : calls[k].time >= window_start_time}

\* C28: between two calls the window request counter is the number of calls
\* issued since the window started, however the calls ended.
C28_CounterCountsEveryCall ==
    pc \in {"loop", "rate", "done"} =>
        requests_in_window = Cardinality(CallsInWindow)

\* ---------------------------------------------------------------- C29
\* Every line of the file was written by a call of this run.
WrittenByThisRun(file) ==
    \A n \in 1..Len(file) :
        \E k \in 1..Len(calls) : file[n].idx \in Range(calls[k].items)

\* C29: once a run has opened its files the output holds only records this
\* run wrote (as many as it counted), whatever it held before; a run whose
\* input does not exist leaves the output as it is.
C29_RunEmptiesOutput ==
    /\ [](pc \notin {"start", "notfound"} =>
            /\ WrittenByThisRun(outfile) /\ WrittenByThisRun(output_file)
            /\ Len(outfile) = count
            /\ pc = "done" => output_file = outfile)
    /\ [][~input_exists => (outfile' = outfile /\ output_file' = output_file)]_vars

\* A completed run that wrote two records, which are all the output holds.
C29_Witness ==
    /\ pc = "done" /\ input_exists
    /\ count = 2
    /\ output_file = outfile
    /\ OutIdx = <<0, 1>>

\* ---------------------------------------------------------------- C30
\* C30: every run ends (completed, aborted by a rejected key, or with no
\* input file); a step reads at most the next line and never goes back, and no
\* line is submitted in two calls.
C30_RunTerminates ==
    /\ <>Ended
    /\ [][i' = i \/ i' = i + 1]_vars
    /\ [](\A k, m \in 1..Len(calls) :
             k # m => Range(calls[k].items) \cap Range(calls[m].items) = {})

\* A run that ended after a success, an error and a call with a wrong number
\* of vectors.
C30_Witness ==
    /\ pc = "done"
    /\ i = Len(infile)
    /\ Len(calls) = 3
    /\ RightCount(calls[1])
    /\ calls[2].outcome = "error"
    /\ Mismatched(calls[3])

====
